---- MODULE Spec2Model ----
(***************************************************************************)
(* State-machine model of app_with_hash_cache.py: the hash-keyed           *)
(* extraction/analysis caches, the retrying model client, the per-file     *)
(* pipeline of a batch, and the history store persisted in history.json.   *)
(*                                                                         *)
(* Widget rendering and export formatting (st.* display calls, the slide   *)
(* deck of lines 476-585) have no effect on the state modelled here.       *)
(***************************************************************************)
EXTENDS Integers, Sequences, FiniteSets, TLC

\* ------------------------------------------------------------- bounds
\* Browser sessions (each has its own st.session_state).
Sessions == {"s1", "s2"}
\* Resolution of datetime.now() below one second (ticks per second).
TicksPerSecond == 2
\* Clock jumps between script runs.
MaxAdvances == 1
\* Script runs that process an upload.
MaxSubmits == 2
\* Files offered in one upload in the "batch" scenario (more than the cap).
MaxUpload == 6
\* Files offered in one upload in the "history" scenario (two more in the
\* "pipeline" scenario).
MaxUploadGeneral == 1
\* Calls of delete_record.
MaxDeletes == 2
\* I/O failures of open() or json.dump(), and failures of the report step.
MaxFaults == 1
\* st.cache_data(max_entries=100), scaled down so that eviction happens.
MaxTextEntries == 2
MaxStudyEntries == 1

\* ---------------------------------------------------- program constants
MAX_FILE_SIZE == 200 * 1024 * 1024
MAX_FILES_PER_BATCH == 5
MAX_ATTEMPTS == 3
WAIT_MULTIPLIER == 1
WAIT_MIN == 4
WAIT_MAX == 10
RETENTION_DAYS == 7

\* --------------------------------------------------------------- time
SecondsPerDay == 24 * 60 * 60

\* timedelta(days=d), in ticks.
Timedelta(days) == days * SecondsPerDay * TicksPerSecond

\* strftime("%Y-%m-%d %H:%M:%S"): the sub-second part is dropped; the string
\* is represented by the whole second it denotes.
Strftime(t) == t \div TicksPerSecond

\* datetime.strptime(s, '%Y-%m-%d %H:%M:%S'): the instant at that second.
Strptime(sec) == sec * TicksPerSecond

Max2(a, b) == IF a >= b THEN a ELSE b
Min2(a, b) == IF a <= b THEN a ELSE b

RECURSIVE Pow2(_)
Pow2(n) == IF n <= 0 THEN 1 ELSE 2 * Pow2(n - 1)

\* ------------------------------------------------------------ uploads
\* Byte contents a user may upload.
\*   A, B  parseable PDFs whose first 30000 characters of text agree
\*   C     a parseable PDF with a different text
\*   E     a parseable PDF with no text block longer than 20 characters
\*   X     bytes that are not a PDF (fitz.open raises)
\*   BIG   more than MAX_FILE_SIZE bytes
Bytes == {"A", "B", "C", "E", "X", "BIG"}

LenBytes(b) == IF b = "BIG" THEN MAX_FILE_SIZE + 1 ELSE 1024

\* hashlib.md5(file_bytes).hexdigest(): many-to-one (A and C collide).
MD5Bytes(b) ==
    CASE b = "A" -> "d1" [] b = "C" -> "d1" [] b = "B" -> "d2"
      [] b = "E" -> "d3" [] b = "X" -> "d4" [] OTHER -> "d5"

\* hashlib.sha256(file_bytes).hexdigest(), stored in the history record.
SHA256(b) == "sha256:" \o b

\* An uploaded file: whether its name ends in ".pdf", and its bytes.
Uploads == [pdf : {TRUE}, bytes : Bytes] \cup [pdf : {FALSE}, bytes : {"A"}]

\* Extracted text: its first 30000 characters (head) and the rest (tail).
NoText == [head |-> "", tail |-> ""]

TextOf(b) ==
    CASE b = "A" -> [head |-> "h1", tail |-> ""]
      [] b = "B" -> [head |-> "h1", tail |-> "more"]
      [] b = "C" -> [head |-> "h2", tail |-> ""]
      [] OTHER -> NoText

\* full_text[:30000]
Trim(text) == [head |-> text.head, tail |-> ""]

\* hashlib.md5(trimmed_text.encode("utf-8")).hexdigest(): many-to-one.
MD5Text(text) == IF text.head = "" THEN "e0" ELSE "e1"

\* A truth test that lets the empty string through.
NeverFalsy(str) == FALSE

\* "not full_text" / "not result": the empty string is falsy.
Falsy(str) == str = ""

\* validate_file
validate_file(u) ==
    IF LenBytes(u.bytes) > MAX_FILE_SIZE THEN FALSE
    ELSE IF ~u.pdf THEN FALSE
    ELSE TRUE

\* The outcome of a call: a returned value or a raised exception.
Return(v) == [raised |-> FALSE, value |-> v]
Raise(v) == [raised |-> TRUE, value |-> v]

\* process_large_file is handed the bytes and calls .getvalue() on them.
process_large_file(b) == Raise(NoText)

\* The body of extract_text_from_pdf_by_hash (the underlying extractor).
ExtractText(b) ==
    IF LenBytes(b) > MAX_FILE_SIZE THEN process_large_file(b)
    ELSE IF b = "X" THEN Raise(NoText)
    ELSE Return(TextOf(b))

\* -------------------------------------------------------------- caches
\* A memoization table of st.cache_data: entries oldest first.
HasKey(cache, k) == \E i \in 1..Len(cache) : cache[i].key = k

Stored(cache, k) ==
    cache[CHOOSE i \in 1..Len(cache) : cache[i].key = k].value

\* A table that stores nothing.
InsertNothing(cache, k, v, max_entries) == cache

\* An entry is written: an entry of the same key is replaced; otherwise,
\* when the table is full, the oldest entry is evicted.
Insert(cache, k, v, max_entries) ==
    LET e == [key |-> k, value |-> v]
        others == SelectSeq(cache, LAMBDA x : x.key # k)
    IN  IF Len(others) >= max_entries THEN Append(Tail(others), e)
        ELSE Append(others, e)

\* A table keyed by the hash alone.
TextKeyHashOnly(file_hash, file_bytes) == <<file_hash, "">>

\* st.cache_data keys an entry by every argument of the call.
TextKey(file_hash, file_bytes) == <<file_hash, file_bytes>>

StudyKey(text_hash, text) == <<text_hash, text>>

\* One call of a cached function whose body yields `computed`: a stored
\* value is returned without running the body; a raised exception is not
\* stored.
GetOrCompute(cache, k, computed, max_entries) ==
    IF HasKey(cache, k)
    THEN [out |-> Return(Stored(cache, k)), cache |-> cache, invoked |-> FALSE]
    ELSE IF computed.raised
    THEN [out |-> computed, cache |-> cache, invoked |-> TRUE]
    ELSE [out |-> computed,
          cache |-> Insert(cache, k, computed.value, max_entries),
          invoked |-> TRUE]

\* extract_text_from_pdf_by_hash(file_hash, file_bytes)
extract_text_from_pdf_by_hash(cache, file_hash, file_bytes) ==
    GetOrCompute(cache, TextKey(file_hash, file_bytes),
                 ExtractText(file_bytes), MaxTextEntries)

\* ------------------------------------------------------- model client
\* What one request to the completion endpoint can end in.
Responses ==
    {"content", "empty_content", "ConnectionError", "Timeout", "HTTPError",
     "missing_field", "invalid_json"}

TransientResponses == {"ConnectionError", "Timeout", "HTTPError"}

\* The exception raised inside the try block. response.json() on a body
\* that is not JSON raises a subclass of RequestException or a plain
\* ValueError, depending on the installed requests library.
ExceptionsOf(r) ==
    CASE r \in {"content", "empty_content"} -> {"none"}
      [] r \in TransientResponses -> {"RequestException"}
      [] r = "missing_field" -> {"KeyError"}
      [] OTHER -> {"RequestException", "ValueError"}

\* response.json()["choices"][0]["message"]["content"]
ContentOf(r) == IF r = "content" THEN "table" ELSE ""

\* One execution of the body of extract_study_design.
AttemptOutcome(r, exc) ==
    IF exc = "none" THEN Return(ContentOf(r))
    ELSE IF exc = "RequestException" THEN Raise("")
    ELSE Return("")

\* A stop condition that lets a 4th attempt through.
stop_after_4(attempt_number) == attempt_number > MAX_ATTEMPTS

\* stop_after_attempt(3)
stop_after_attempt(attempt_number) == attempt_number >= MAX_ATTEMPTS

\* A wait without the floor.
wait_without_min(attempt_number) ==
    Min2(WAIT_MULTIPLIER * Pow2(attempt_number - 1), WAIT_MAX)

\* wait_exponential(multiplier=1, min=4, max=10), in seconds.
wait_exponential(attempt_number) ==
    Max2(Max2(0, WAIT_MIN),
         Min2(WAIT_MULTIPLIER * Pow2(attempt_number - 1), WAIT_MAX))

NoCall ==
    [state |-> "Pending", calls |-> 0, transient |-> 0, nontransient |-> FALSE,
     delays |-> <<>>, out |-> Return("")]

\* ------------------------------------------------------ history store
NoMeta == [last_updated |-> 0, total_records |-> 0, cleaned_records |-> 0]

\* A history.json that is not a document written by save_history.
FileOf(kind) == [kind |-> kind, records |-> <<>>, metadata |-> NoMeta]

\* The record kept by the retention filter.
Fresh(record, current_time) ==
    Strptime(record.time) > current_time - Timedelta(RETENTION_DAYS)

CleanRecords(records, current_time) ==
    SelectSeq(records, LAMBDA r : Fresh(r, current_time))

\* The body of the try block of load_history.
load_parse(f, current_time) ==
    IF f.kind \in {"empty", "partial", "garbage"}
    THEN [exc |-> "JSONDecodeError", value |-> <<>>]
    ELSE IF f.kind \in {"nondict", "norecords"}
    THEN [exc |-> "none", value |-> <<>>]
    ELSE IF f.kind = "notlist"
    THEN [exc |-> "none", value |-> <<>>]
    ELSE IF f.kind = "baditem"
    THEN [exc |-> "KeyError", value |-> <<>>]
    ELSE [exc |-> "none", value |-> CleanRecords(f.records, current_time)]

\* A narrower handler: only a parse error is caught.
CatchParseErrorOnly(o) ==
    IF o.exc = "none" THEN Return(o.value)
    ELSE IF o.exc = "JSONDecodeError" THEN Return(<<>>)
    ELSE Raise(<<>>)

\* except Exception: return []
CatchAll(o) == IF o.exc = "none" THEN Return(o.value) ELSE Return(<<>>)

load_history(f, current_time) ==
    IF f.kind = "missing" THEN Return(<<>>)
    ELSE CatchAll(load_parse(f, current_time))

\* The document save_history writes.
SaveData(records, current_time) ==
    LET cleaned_records == CleanRecords(records, current_time)
    IN  [kind |-> "doc",
         records |-> cleaned_records,
         metadata |->
             [last_updated |-> Strftime(current_time),
              total_records |-> Len(cleaned_records),
              cleaned_records |-> Len(records) - Len(cleaned_records)]]

\* The comparison inverted: only the matching record is kept.
KeepOnlyId(records, record_id) ==
    SelectSeq(records, LAMBDA r : r.id = record_id)

\* [r for r in records if r.get('id') != record_id]
WithoutId(records, record_id) ==
    SelectSeq(records, LAMBDA r : r.id # record_id)

\* -------------------------------------------------------------- state
VARIABLES
    scenario,    \* which environment the behaviour runs in (never changes)
    now,         \* datetime.now(), in ticks
    advances,    \* clock jumps made so far
    submits,     \* script runs that processed an upload so far
    deletes,     \* calls of delete_record so far
    faults,      \* I/O and report failures so far
    nextId,      \* the next uuid4 (ids are never reused)
    file,        \* the content of history.json
    lastSaved,   \* the document written by the last successful save
    pc,          \* each session's position in the script
    history,     \* st.session_state.history of each session
    uploaded,    \* current_batch of the session's run (file names)
    queued,      \* queued_files of the session's run
    idx,         \* position of the processing loop in current_batch
    base,        \* length of the session's history when the run began
    run,         \* the pipeline run of the session's current or last file
    call,        \* the session's current or last call of extract_study_design
    saving,      \* the document a save_history in progress is writing
    saveCtx,     \* who called save_history: the loop or delete_record
    ret,         \* the session's current or last call of delete_record
    textCache,   \* table of extract_text_from_pdf_by_hash
    studyCache   \* table of extract_study_by_hash

vars ==
    <<scenario, now, advances, submits, deletes, faults, nextId, file,
                   lastSaved, pc, history,
      uploaded, queued, idx, base, run, call, saving, saveCtx, ret,
      textCache, studyCache>>

\* Sessions that are open in a scenario.
Live == IF scenario = "shared" THEN Sessions ELSE {"s1"}

\* What the environment offers in each scenario:
\*   pipeline  every kind of upload and response, a missing history file
\*   history   every kind of history file and clock jump, one kind of upload
\*   batch     uploads of more files than the cap
\*   shared    two sessions on one history.json and one pair of tables
UploadLimit ==
    CASE scenario = "batch" -> MaxUpload
      [] scenario = "pipeline" -> MaxUploadGeneral + 2
      [] OTHER -> MaxUploadGeneral

SubmitLimit == IF scenario \in {"history", "shared"} THEN MaxSubmits ELSE 1

AdvanceLimit == IF scenario = "history" THEN MaxAdvances ELSE 1

DeleteLimit == IF scenario = "history" THEN MaxDeletes ELSE 1

FaultLimit == MaxFaults

UploadChoices ==
    CASE scenario = "pipeline" -> Uploads
      [] scenario = "batch" -> [pdf : BOOLEAN, bytes : {"A"}]
      [] OTHER -> [pdf : {TRUE}, bytes : {"A"}]

ResponseChoices ==
    IF scenario = "pipeline" THEN Responses ELSE {"content", "Timeout"}

ClockSteps ==
    IF scenario = "history"
    THEN {1, Timedelta(RETENTION_DAYS) - 1, Timedelta(RETENTION_DAYS)}
    ELSE {1}

\* A history record (lines 588-599). The content is result.strip(); the
\* results modelled carry no surrounding whitespace.
Record(id, name, file_bytes, t, result) ==
    [id |-> id, name |-> name, hash |-> SHA256(file_bytes),
     time |-> Strftime(t), content |-> result]

Today == Timedelta(9)

\* A document left by an earlier run, saved three days ago.
PriorDoc ==
    SaveData(<<Record(1, 1, "A", Today - Timedelta(8), "table"),
               Record(2, 1, "B", Today - Timedelta(3), "table")>>,
             Today - Timedelta(3))

InitFiles ==
    IF scenario = "history"
    THEN {FileOf(k) : k \in {"missing", "empty", "garbage", "nondict",
                             "norecords", "notlist", "baditem"}} \cup {PriorDoc}
    ELSE {FileOf("missing")}

NoRun == [name |-> 0, bytes |-> "", text |-> NoText, extracted |-> FALSE,
          result |-> "", steps |-> <<>>, outcome |-> "none"]

NoRet == [op |-> "none", done |-> TRUE, value |-> FALSE, id |-> 0,
          found |-> FALSE]

NoData == FileOf("missing")

InitCommon ==
    /\ file \in InitFiles
    /\ now = Today
    /\ advances = 0
    /\ submits = 0
    /\ deletes = 0
    /\ faults = 0
    /\ nextId = 3
    /\ lastSaved = file
    /\ pc = [s \in Sessions |-> "start"]
    /\ history = [s \in Sessions |-> <<>>]
    /\ uploaded = [s \in Sessions |-> <<>>]
    /\ queued = [s \in Sessions |-> <<>>]
    /\ idx = [s \in Sessions |-> 1]
    /\ base = [s \in Sessions |-> 0]
    /\ run = [s \in Sessions |-> NoRun]
    /\ call = [s \in Sessions |-> NoCall]
    /\ saving = [s \in Sessions |-> NoData]
    /\ saveCtx = [s \in Sessions |-> "none"]
    /\ ret = [s \in Sessions |-> NoRet]
    /\ textCache = <<>>
    /\ studyCache = <<>>

InitPipeline == scenario = "pipeline" /\ InitCommon

InitHistory == scenario = "history" /\ InitCommon

InitBatch == scenario = "batch" /\ InitCommon

InitShared == scenario = "shared" /\ InitCommon

\* ------------------------------------------------------------ actions
\* Lines 409-411: a new session loads the history; an exception that
\* load_history let through would end the script run.
SessionStart(s) ==
    /\ s \in Live
    /\ pc[s] = "start"
    /\ LET o == load_history(file, now)
       IN  /\ history' = [history EXCEPT ![s] = IF o.raised THEN <<>> ELSE o.value]
           /\ pc' = [pc EXCEPT ![s] = IF o.raised THEN "crashed" ELSE "idle"]
    /\ UNCHANGED <<scenario, now, advances, submits, deletes, faults, nextId, file,
                   lastSaved,
                   uploaded, queued, idx, base, run, call, saving, saveCtx, ret,
                   textCache, studyCache>>

\* The browser session ends; its st.session_state is discarded.
CloseSession(s) ==
    /\ s \in Live
    /\ pc[s] = "idle"
    /\ pc' = [pc EXCEPT ![s] = "start"]
    /\ history' = [history EXCEPT ![s] = <<>>]
    /\ run' = [run EXCEPT ![s] = NoRun]
    /\ call' = [call EXCEPT ![s] = NoCall]
    /\ ret' = [ret EXCEPT ![s] = NoRet]
    /\ UNCHANGED <<scenario, now, advances, submits, deletes, faults, nextId, file,
                   lastSaved,
                   uploaded, queued, idx, base, saving, saveCtx,
                   textCache, studyCache>>

\* Time passes between script runs.
Tick(d) ==
    /\ advances < AdvanceLimit
    /\ d \in ClockSteps
    /\ \A s \in Sessions : pc[s] \in {"start", "idle"}
    /\ now' = now + d
    /\ advances' = advances + 1
    /\ UNCHANGED <<scenario, submits, deletes, faults, nextId, file, lastSaved, pc,
                   history,
                   uploaded, queued, idx, base, run, call, saving, saveCtx, ret,
                   textCache, studyCache>>

\* A batch without the cap.
WholeUpload(uploaded_files) == uploaded_files

\* Lines 437-444: the split of the upload into current_batch ...
CurrentBatch(uploaded_files) ==
    IF Len(uploaded_files) > 5 THEN SubSeq(uploaded_files, 1, 5)
    ELSE uploaded_files

\* ... and queued_files.
QueuedFiles(uploaded_files) ==
    IF Len(uploaded_files) > 5
    THEN SubSeq(uploaded_files, 6, Len(uploaded_files))
    ELSE <<>>

\* Lines 433-457: a script run with n uploaded files begins.
Submit(s, n) ==
    /\ s \in Live
    /\ pc[s] = "idle"
    /\ submits < SubmitLimit
    /\ n \in 1..UploadLimit
    /\ LET uploaded_files == [i \in 1..n |-> i]
       IN  /\ uploaded' = [uploaded EXCEPT ![s] = CurrentBatch(uploaded_files)]
           /\ queued' = [queued EXCEPT ![s] = QueuedFiles(uploaded_files)]
    /\ submits' = submits + 1
    /\ idx' = [idx EXCEPT ![s] = 1]
    /\ base' = [base EXCEPT ![s] = Len(history[s])]
    /\ run' = [run EXCEPT ![s] = NoRun]
    /\ call' = [call EXCEPT ![s] = NoCall]
    /\ ret' = [ret EXCEPT ![s] = NoRet]
    /\ pc' = [pc EXCEPT ![s] = "file"]
    /\ UNCHANGED <<scenario, now, advances, deletes, faults, nextId, file, lastSaved,
                   history,
                   saving, saveCtx, textCache, studyCache>>

\* Line 459: the loop moves on to the next file of current_batch.
NextFile(s) ==
    /\ idx' = [idx EXCEPT ![s] = @ + 1]
    /\ pc' = [pc EXCEPT ![s] =
                 IF idx[s] + 1 > Len(uploaded[s]) THEN "idle" ELSE "file"]

\* A failure that ends the loop instead of continuing it.
AbortBatch(s, r, why) ==
    /\ run' = [run EXCEPT ![s] = [r EXCEPT !.outcome = why]]
    /\ idx' = [idx EXCEPT ![s] = @ + 1]
    /\ pc' = [pc EXCEPT ![s] = "idle"]
    /\ UNCHANGED <<history, nextId, file, saving, saveCtx, faults>>

\* Lines 469-471: process_file_with_status returned None.
Abort(s, r, why) ==
    /\ run' = [run EXCEPT ![s] = [r EXCEPT !.outcome = why]]
    /\ NextFile(s)
    /\ UNCHANGED <<history, nextId, file, saving, saveCtx, faults>>

\* Lines 290-315 as called from line 601 or 339: the filter, the document
\* and open(..., 'w'), which truncates the file; json.dump follows in
\* SaveDump. When open fails the file is left as it was.
BeginSave(s, records, ctx, openOk) ==
    IF openOk
    THEN /\ saving' = [saving EXCEPT ![s] = SaveData(records, now)]
         /\ saveCtx' = [saveCtx EXCEPT ![s] = ctx]
         /\ file' = FileOf("empty")
    ELSE UNCHANGED <<saving, saveCtx, file>>

\* Lines 109-136 and 469-601: from the analysis result to the history.
Finish(s, r, analysis, why, reportOk, openOk) ==
    IF analysis.raised \/ Falsy(analysis.value)
    THEN Abort(s, r, why)
    ELSE IF ~reportOk
    THEN /\ run' = [run EXCEPT ![s] =
                       [r EXCEPT !.result = analysis.value,
                                 !.steps = r.steps \o <<"materialize">>,
                                 !.outcome = "report"]]
         /\ NextFile(s)
         /\ faults' = faults + 1
         /\ UNCHANGED <<history, nextId, file, saving, saveCtx>>
    ELSE LET record == Record(nextId, r.name, r.bytes, now, analysis.value)
             records == Append(history[s], record)
         IN  /\ history' = [history EXCEPT ![s] = records]
             /\ nextId' = nextId + 1
             /\ run' = [run EXCEPT ![s] =
                           [r EXCEPT !.result = analysis.value,
                                     !.steps = r.steps \o <<"materialize", "persist">>,
                                     !.outcome = "ok"]]
             /\ BeginSave(s, records, "append", openOk)
             /\ faults' = IF openOk THEN faults ELSE faults + 1
             /\ IF openOk
                THEN /\ pc' = [pc EXCEPT ![s] = "saving"]
                     /\ UNCHANGED idx
                ELSE NextFile(s)

\* Lines 459-467 and 86-108: the loop takes the next file, validates it,
\* extracts its text and looks the trimmed text up in the analysis table.
BeginFile(s, u, reportOk, openOk) ==
    /\ s \in Live
    /\ pc[s] = "file"
    /\ u \in UploadChoices
    /\ (reportOk /\ openOk) \/ faults < FaultLimit
    /\ LET r0 == [NoRun EXCEPT !.name = uploaded[s][idx[s]], !.bytes = u.bytes,
                               !.steps = <<"validate">>, !.outcome = "running"]
       IN  IF ~validate_file(u)
           THEN /\ Abort(s, r0, "validation")
                /\ call' = [call EXCEPT ![s] = NoCall]
                /\ UNCHANGED <<textCache, studyCache>>
           ELSE
           LET file_bytes == u.bytes
               file_hash == MD5Bytes(file_bytes)
               ex == extract_text_from_pdf_by_hash(textCache, file_hash, file_bytes)
               r1 == [r0 EXCEPT !.steps = <<"validate", "extract">>,
                                !.extracted = ex.invoked,
                                !.text = ex.out.value]
           IN  /\ textCache' = ex.cache
               /\ IF ex.out.raised
                  THEN /\ Abort(s, r1, "extraction")
                       /\ call' = [call EXCEPT ![s] = NoCall]
                       /\ UNCHANGED studyCache
                  ELSE IF Falsy(ex.out.value.head)
                  THEN /\ Abort(s, r1, "empty_text")
                       /\ call' = [call EXCEPT ![s] = NoCall]
                       /\ UNCHANGED studyCache
                  ELSE
                  LET trimmed_text == Trim(ex.out.value)
                      text_hash == MD5Text(trimmed_text)
                      k == StudyKey(text_hash, trimmed_text)
                      r2 == [r1 EXCEPT !.steps = <<"validate", "extract", "analyze">>]
                  IN  IF HasKey(studyCache, k)
                      THEN /\ Finish(s, r2, Return(Stored(studyCache, k)),
                                     "no_result", reportOk, openOk)
                           /\ call' = [call EXCEPT ![s] = NoCall]
                           /\ UNCHANGED studyCache
                      ELSE /\ call' = [call EXCEPT ![s] =
                                         [NoCall EXCEPT !.state = "Calling"]]
                           /\ run' = [run EXCEPT ![s] = r2]
                           /\ pc' = [pc EXCEPT ![s] = "calling"]
                           /\ UNCHANGED <<studyCache, idx, history, nextId, file,
                                          saving, saveCtx, faults>>
    /\ UNCHANGED <<scenario, now, advances, submits, deletes, lastSaved, uploaded,
                   queued,
                   base, ret>>

\* Lines 172-215: one attempt of extract_study_design, and what the retry
\* decorator and the caller (lines 168-170, 108-111) make of its outcome.
Attempt(s, resp, exc, reportOk, openOk) ==
    /\ s \in Live
    /\ pc[s] = "calling"
    /\ call[s].state = "Calling"
    /\ resp \in ResponseChoices
    /\ exc \in ExceptionsOf(resp)
    /\ (reportOk /\ openOk) \/ faults < FaultLimit
    /\ LET c == call[s]
           attempt_number == c.calls + 1
           o == AttemptOutcome(resp, exc)
           trimmed_text == Trim(run[s].text)
           k == StudyKey(MD5Text(trimmed_text), trimmed_text)
       IN  IF o.raised /\ ~stop_after_attempt(attempt_number)
           THEN /\ call' = [call EXCEPT ![s] =
                              [c EXCEPT !.state = "Backoff",
                                        !.calls = attempt_number,
                                        !.transient = c.transient + 1,
                                        !.delays = Append(c.delays,
                                            wait_exponential(attempt_number))]]
                /\ UNCHANGED <<pc, idx, run, history, nextId, file, saving,
                               saveCtx, studyCache, faults>>
           ELSE IF o.raised
           THEN /\ call' = [call EXCEPT ![s] =
                              [c EXCEPT !.state = "Exhausted",
                                        !.calls = attempt_number,
                                        !.transient = c.transient + 1,
                                        !.out = Raise("")]]
                /\ Finish(s, run[s], Raise(""), "exhausted", reportOk, openOk)
                /\ UNCHANGED studyCache
           ELSE /\ call' = [call EXCEPT ![s] =
                              [c EXCEPT !.state = "Success",
                                        !.calls = attempt_number,
                                        !.nontransient = exc # "none",
                                        !.out = o]]
                /\ studyCache' = Insert(studyCache, k, o.value, MaxStudyEntries)
                /\ Finish(s, run[s], o,
                          IF exc # "none" THEN "response_error" ELSE "no_result",
                          reportOk, openOk)
    /\ UNCHANGED <<scenario, now, advances, submits, deletes, lastSaved, uploaded,
                   queued,
                   base, ret, textCache>>

\* The retry decorator sleeps call[s].delays[n] seconds before the next
\* attempt (the clock read by datetime.now() moves in Tick).
Backoff(s) ==
    /\ s \in Live
    /\ pc[s] = "calling"
    /\ call[s].state = "Backoff"
    /\ call' = [call EXCEPT ![s] = [@ EXCEPT !.state = "Calling"]]
    /\ UNCHANGED <<scenario, now, advances, submits, deletes, faults, nextId, file,
                   lastSaved, pc,
                   history, uploaded, queued, idx, base, run, saving, saveCtx,
                   ret, textCache, studyCache>>

\* Lines 313-318: json.dump writes the document into the truncated file, or
\* fails having written nothing or a part of it. There is no lock: when
\* another session has the file open for writing, or has written to it
\* since this save truncated it, the two writers' bytes land in one file
\* from offset 0 each, and the file ends as this document or as a mix of
\* the two ("mixed", not JSON); save_history returns True in both cases.
SaveDump(s, written) ==
    /\ s \in Live
    /\ pc[s] = "saving"
    /\ written \in {"doc", "mixed", "empty", "partial"}
    /\ written = "mixed" =>
           \/ file.kind # "empty"
           \/ \E t \in Sessions \ {s} : pc[t] = "saving"
    /\ written \in {"doc", "mixed"} \/ faults < FaultLimit
    /\ LET ok == written \in {"doc", "mixed"}
       IN  /\ faults' = IF ok THEN faults ELSE faults + 1
           /\ file' = IF written = "doc" THEN saving[s]
                      ELSE IF written = "mixed" THEN FileOf("garbage")
                      ELSE FileOf(written)
           /\ lastSaved' = IF ok THEN saving[s] ELSE lastSaved
           /\ IF saveCtx[s] = "delete"
              THEN /\ ret' = [ret EXCEPT ![s] =
                                [@ EXCEPT !.done = TRUE, !.value = ok]]
                   /\ pc' = [pc EXCEPT ![s] = "idle"]
                   /\ UNCHANGED idx
              ELSE /\ NextFile(s)
                   /\ UNCHANGED ret
    /\ saving' = [saving EXCEPT ![s] = NoData]
    /\ saveCtx' = [saveCtx EXCEPT ![s] = "none"]
    /\ UNCHANGED <<scenario, now, advances, submits, deletes, nextId, history,
                   uploaded, queued, base, run, call, textCache, studyCache>>

\* Lines 320-347: delete_record(record_id); id 0 stands for an empty id.
DeleteRecord(s, record_id, openOk) ==
    /\ s \in Live
    /\ pc[s] = "idle"
    /\ record_id \in 0..nextId
    /\ deletes < DeleteLimit
    /\ openOk \/ faults < FaultLimit
    /\ deletes' = deletes + 1
    /\ LET records == history[s]
           kept == WithoutId(records, record_id)
           this == [op |-> "delete", done |-> TRUE, value |-> FALSE,
                    id |-> record_id,
                    found |-> \E i \in 1..Len(records) : records[i].id = record_id]
       IN  IF record_id = 0
           THEN /\ ret' = [ret EXCEPT ![s] = this]
                /\ UNCHANGED <<history, file, saving, saveCtx, pc, faults>>
           ELSE IF Len(kept) = Len(records)
           THEN /\ ret' = [ret EXCEPT ![s] = this]
                /\ history' = [history EXCEPT ![s] = kept]
                /\ UNCHANGED <<file, saving, saveCtx, pc, faults>>
           ELSE /\ history' = [history EXCEPT ![s] = kept]
                /\ BeginSave(s, kept, "delete", openOk)
                /\ faults' = IF openOk THEN faults ELSE faults + 1
                /\ ret' = [ret EXCEPT ![s] = [this EXCEPT !.done = ~openOk]]
                /\ pc' = [pc EXCEPT ![s] = IF openOk THEN "saving" ELSE "idle"]
    /\ run' = [run EXCEPT ![s] = NoRun]
    /\ call' = [call EXCEPT ![s] = NoCall]
    /\ UNCHANGED <<scenario, now, advances, submits, nextId, lastSaved, uploaded,
                   queued, idx, base, textCache, studyCache>>

\* Lines 370-372: the admin page clears the session's history (no save).
ClearHistory(s) ==
    /\ s \in Live
    /\ pc[s] = "idle"
    /\ history[s] # <<>>
    /\ history' = [history EXCEPT ![s] = <<>>]
    /\ run' = [run EXCEPT ![s] = NoRun]
    /\ call' = [call EXCEPT ![s] = NoCall]
    /\ ret' = [ret EXCEPT ![s] = NoRet]
    /\ UNCHANGED <<scenario, now, advances, submits, deletes, faults, nextId, file,
                   lastSaved,
                   pc, uploaded, queued, idx, base, saving, saveCtx,
                   textCache, studyCache>>

Next ==
    \/ \E s \in Sessions : SessionStart(s)
    \/ \E s \in Sessions : CloseSession(s)
    \/ \E d \in ClockSteps : Tick(d)
    \/ \E s \in Sessions, n \in 1..MaxUpload : Submit(s, n)
    \/ \E s \in Sessions, u \in Uploads, reportOk \in BOOLEAN, openOk \in BOOLEAN :
           BeginFile(s, u, reportOk, openOk)
    \/ \E s \in Sessions, resp \in Responses,
          exc \in {"none", "RequestException", "KeyError", "ValueError"},
          reportOk \in BOOLEAN, openOk \in BOOLEAN :
           Attempt(s, resp, exc, reportOk, openOk)
    \/ \E s \in Sessions : Backoff(s)
    \/ \E s \in Sessions, written \in {"doc", "mixed", "empty", "partial"} :
           SaveDump(s, written)
    \/ \E s \in Sessions, record_id \in 0..nextId, openOk \in BOOLEAN :
           DeleteRecord(s, record_id, openOk)
    \/ \E s \in Sessions : ClearHistory(s)

Spec == InitPipeline /\ [][Next]_vars

SpecHistory == InitHistory /\ [][Next]_vars

SpecBatch == InitBatch /\ [][Next]_vars

SpecShared == InitShared /\ [][Next]_vars

\* ------------------------------------------------------------- claims
\* The step in which session s takes a file of its batch (BeginFile).
TakesFile(s) ==
    /\ pc[s] = "file"
    /\ pc'[s] # "file" \/ idx'[s] # idx[s]

\* The step in which the pipeline run of session s's file ends.
EndsRun(s) ==
    /\ pc[s] \in {"file", "calling"}
    /\ pc'[s] # "calling"
    /\ pc'[s] # "file" \/ idx'[s] # idx[s]

Reached(r, step) == \E i \in 1..Len(r.steps) : r.steps[i] = step

\* C1: a call of extract_study_design in which every attempt so far ended
\* in a transient failure has not succeeded; it ends Exhausted exactly when
\* the endpoint has been invoked 3 times, the exhaustion reaches the caller
\* as a raised error that fails the file's run, and no call ever invokes
\* the endpoint a 4th time.
C1_RetryBound ==
    \A s \in Sessions :
        LET c == call[s]
        IN  /\ c.calls <= 3
            /\ (c.calls > 0 /\ c.transient = c.calls) =>
                   /\ c.state \in {"Backoff", "Calling", "Exhausted"}
                   /\ (c.state = "Exhausted") <=> (c.calls = 3)
            /\ c.state = "Exhausted" =>
                   /\ c.transient = 3
                   /\ c.out.raised
                   /\ run[s].outcome = "exhausted"
                   /\ pc[s] # "calling"

\* C1 witness: a call that ended Exhausted after 3 transient failures.
C1_Witness ==
    \E s \in Sessions :
        /\ call[s].state = "Exhausted"
        /\ call[s].calls = 3
        /\ call[s].transient = 3
        /\ run[s].outcome = "exhausted"

\* C2 (as claimed): a call whose attempt met a non-transient failure is
\* not retried (one invocation when it was the first attempt) and ends
\* with an error raised to its caller instead of a returned value.
C2_NonTransientRaises ==
    \A s \in Sessions :
        call[s].nontransient =>
            /\ call[s].state \notin {"Calling", "Backoff"}
            /\ call[s].transient = 0 => call[s].calls = 1
            /\ call[s].out.raised

\* C3: a call of a cached function whose key is in its table does not run
\* the underlying computation, returns the stored value and leaves the
\* table as it is; a call whose key is absent runs it. Hence of two
\* consecutive calls with identical bytes (text) the second does not run
\* it, and calls with different bytes each run it.
C3_TextCall(s) ==
    (TakesFile(s) /\ Reached(run'[s], "extract")) =>
        LET b == run'[s].bytes
            k == <<MD5Bytes(b), b>>
        IN  /\ IF HasKey(textCache, k)
               THEN /\ ~run'[s].extracted
                    /\ run'[s].text = Stored(textCache, k)
                    /\ textCache' = textCache
               ELSE run'[s].extracted
            /\ (/\ idx[s] > 1
                /\ run[s].bytes = b
                /\ run[s].outcome \notin {"validation", "extraction"}) =>
                   /\ ~run'[s].extracted
                   /\ run'[s].text = run[s].text
            /\ (idx[s] > 1 /\ run[s].bytes # b /\ textCache = <<>>) =>
                   run'[s].extracted

C3_StudyCall(s) ==
    (TakesFile(s) /\ Reached(run'[s], "analyze")) =>
        LET t == Trim(run'[s].text)
            k == <<MD5Text(t), t>>
        IN  /\ IF HasKey(studyCache, k)
               THEN /\ pc'[s] # "calling"
                    /\ call'[s].calls = 0
                    /\ run'[s].outcome # "running"
                    /\ run'[s].result = Stored(studyCache, k)
                    /\ studyCache' = studyCache
               ELSE /\ pc'[s] = "calling"
                    /\ call'[s].state = "Calling"
            /\ (/\ idx[s] > 1
                /\ Trim(run[s].text) = t
                /\ run[s].outcome \in {"ok", "report", "no_result", "response_error"}) =>
                   /\ pc'[s] # "calling"
                   /\ run'[s].result = run[s].result

C3_CacheHit ==
    [][\A s \in Sessions : C3_TextCall(s) /\ C3_StudyCall(s)]_vars

\* C3 witness: a file whose bytes and trimmed text were both in the tables:
\* neither the extractor nor the model client ran, and the run succeeded.
C3_Witness ==
    \E s \in Sessions :
        /\ run[s].outcome = "ok"
        /\ ~run[s].extracted
        /\ call[s].calls = 0
        /\ run[s].name > 1

\* The records of a list that are not older than 7 days at current_time.
NotOlderThanAWeek(records, current_time) ==
    SelectSeq(records,
              LAMBDA r : current_time - Strptime(r.time) <= Timedelta(7))

\* C4 (as claimed): load_history returns, and save_history persists,
\* exactly the records of its input that are not older than 7 days at the
\* time of the call, in their order, and the metadata of the saved
\* document counts the records kept and the records dropped.
C4_RetentionExact ==
    [][\A s \in Sessions :
          /\ (pc[s] = "start" /\ pc'[s] = "idle" /\ file.kind = "doc") =>
                 history'[s] = NotOlderThanAWeek(file.records, now)
          /\ (pc[s] # "saving" /\ pc'[s] = "saving") =>
                 LET kept == NotOlderThanAWeek(history'[s], now)
                 IN  /\ saving'[s].records = kept
                     /\ saving'[s].metadata.total_records = Len(kept)
                     /\ saving'[s].metadata.cleaned_records =
                            Len(history'[s]) - Len(kept)]_vars

\* C5: load_history never raises: the script run that starts a session
\* always gets a list, and it is the empty list when history.json is
\* missing, empty, unparseable or structurally invalid.
C5_DefensiveLoad ==
    [][\A s \in Sessions :
          (pc[s] = "start" /\ pc'[s] # "start") =>
              /\ pc'[s] = "idle"
              /\ file.kind # "doc" => history'[s] = <<>>]_vars

\* C5 witness: a session that started on a file without a 'records' key
\* and works with an empty history.
C5_Witness ==
    \E s \in Sessions :
        /\ pc[s] = "idle"
        /\ file.kind = "norecords"
        /\ history[s] = <<>>

\* C6 (as claimed): delete_record with an id present returns success, and
\* with an id that matches no record returns failure.
C6_DeleteReturnsFound ==
    \A s \in Sessions :
        (ret[s].op = "delete" /\ ret[s].done) =>
            (ret[s].value <=> ret[s].found)

\* The list without its i-th element.
DropAt(records, i) ==
    SubSeq(records, 1, i - 1) \o SubSeq(records, i + 1, Len(records))

\* C6 (amended): delete_record with an id present removes exactly the
\* record with that id from the in-memory collection, the others staying
\* in place and in order, and returns success exactly when the save that
\* follows succeeds (failure when it fails); with an id that matches no
\* record it returns failure and leaves the in-memory collection and the
\* persisted file unchanged.
C6_Delete ==
    [][\A s \in Sessions :
          /\ (pc[s] = "idle" /\ ret'[s].op = "delete" /\ deletes' # deletes) =>
                 LET id == ret'[s].id
                     at == {i \in 1..Len(history[s]) : history[s][i].id = id}
                 IN  IF at # {}
                     THEN /\ ret'[s].found
                          /\ \E i \in at : history'[s] = DropAt(history[s], i)
                          /\ ret'[s].done =>
                                 ~ret'[s].value /\ file' = file
                          /\ ~ret'[s].done => pc'[s] = "saving"
                     ELSE /\ ret'[s].done
                          /\ ~ret'[s].value
                          /\ ~ret'[s].found
                          /\ history'[s] = history[s]
                          /\ file' = file
          /\ (pc[s] = "saving" /\ saveCtx[s] = "delete" /\ pc'[s] # "saving") =>
                 /\ ret'[s].done
                 /\ ret'[s].value <=> (file' = saving[s])
                 /\ history'[s] = history[s]]_vars

\* C6 witness: a deletion of a present id that returned success and left
\* other records in the store.
C6_Witness ==
    \E s \in Sessions :
        /\ ret[s].op = "delete"
        /\ ret[s].done
        /\ ret[s].found
        /\ ret[s].value
        /\ history[s] # <<>>
        /\ file.records = history[s]

\* C7 (as claimed): whenever history.json can be read, its content is the
\* complete document written by the last successful save.
C7_FileIsLastSaved == file = lastSaved

\* The session's batch is being processed, or has just been processed.
InSubmission(s) ==
    \/ pc[s] \in {"file", "calling"}
    \/ pc[s] = "saving" /\ saveCtx[s] = "append"
    \/ pc[s] = "idle" /\ run[s].outcome # "none"

\* C8: of the n files of a submission the first min(n, 5) form the batch,
\* in submission order, and the others are deferred; the loop takes the
\* files of the batch one at a time in that order and never a deferred
\* one, and the records appended during the submission are in the order
\* of their files.
C8_BatchOrder ==
    \A s \in Sessions :
        InSubmission(s) =>
            LET n == Len(uploaded[s]) + Len(queued[s])
                m == IF n < 5 THEN n ELSE 5
            IN  /\ uploaded[s] = [i \in 1..m |-> i]
                /\ queued[s] = [i \in 1..(n - m) |-> m + i]
                /\ idx[s] \in 1..(m + 1)
                /\ pc[s] \in {"file", "calling", "saving"} => idx[s] <= m
                /\ pc[s] \in {"calling", "saving"} => run[s].name = idx[s]
                /\ pc[s] \in {"file", "idle"} => run[s].name = idx[s] - 1
                /\ pc[s] = "idle" => idx[s] = m + 1
                /\ Len(history[s]) >= base[s]
                /\ \A i \in (base[s] + 1)..Len(history[s]) :
                       /\ history[s][i].name \in 1..m
                       /\ history[s][i].name <= run[s].name
                       /\ \A j \in (i + 1)..Len(history[s]) :
                              history[s][i].name < history[s][j].name

\* C8 witness: a submission of 6 files has ended: 5 were processed, the
\* 6th is deferred, and records were appended for several of the 5.
C8_Witness ==
    \E s \in Sessions :
        /\ pc[s] = "idle"
        /\ run[s].name = 5
        /\ Len(queued[s]) = 1
        /\ Len(history[s]) >= base[s] + 2

FailureKinds == {"validation", "extraction", "exhausted", "response_error"}

AllSteps == <<"validate", "extract", "analyze", "materialize", "persist">>

IsPrefix(p, q) == Len(p) <= Len(q) /\ SubSeq(q, 1, Len(p)) = p

\* C10: the steps of a run are taken in the order validate, extract,
\* analyze, materialize, persist; a record is appended only by a run that
\* completed all of them, for a valid file with non-empty text and a
\* non-empty analysis result; a run whose extraction gave empty text never
\* reaches the analysis, never invokes the model client and appends
\* nothing.
C10_RecordOnlyOnSuccess ==
    [][\A s \in Sessions :
          /\ IsPrefix(run'[s].steps, AllSteps)
          /\ (pc[s] \in {"file", "calling"} /\ history'[s] # history[s]) =>
                 LET r == run'[s]
                     last == history'[s][Len(history'[s])]
                 IN  /\ history'[s] = Append(history[s], last)
                     /\ r.steps = AllSteps
                     /\ r.outcome = "ok"
                     /\ LenBytes(r.bytes) <= MAX_FILE_SIZE
                     /\ r.text.head # ""
                     /\ r.result # ""
                     /\ last.name = r.name
          /\ (pc[s] \in {"file", "calling"} /\ run'[s].outcome # "ok") =>
                 history'[s] = history[s]
          /\ (Reached(run'[s], "extract") /\ run'[s].text.head = "") =>
                 /\ ~Reached(run'[s], "analyze")
                 /\ run'[s].outcome \in {"extraction", "empty_text"}
                 /\ call'[s].calls = 0
                 /\ pc'[s] # "calling"
                 /\ TakesFile(s) => history'[s] = history[s]]_vars

\* C10 witness: the 1st file of a batch got its record, the 2nd gave empty
\* text: its run failed after extraction without a model call or a record.
C10_Witness ==
    \E s \in Sessions :
        /\ run[s].name = 2
        /\ run[s].outcome = "empty_text"
        /\ run[s].steps = <<"validate", "extract">>
        /\ call[s].calls = 0
        /\ Len(history[s]) = base[s] + 1

\* The delays slept so far in session s's call of the model client: one
\* after each transient failure that was followed by another attempt.
DelaysComplete(s) ==
    LET c == call[s]
    IN  Len(c.delays) =
            IF c.state = "Exhausted" THEN c.calls - 1
            ELSE IF c.state = "Success" THEN c.transient
            ELSE c.calls

\* C12 (as claimed): every backoff delay of a call lies between 4 s and
\* 10 s, and the delay before the 3rd attempt is longer than the delay
\* before the 2nd.
C12_DelaysIncrease ==
    \A s \in Sessions :
        LET d == call[s].delays
        IN  /\ \A i \in 1..Len(d) : d[i] >= 4 /\ d[i] <= 10
            /\ Len(d) >= 2 => d[2] > d[1]

\* C12 (amended): every transient failure that is followed by another
\* attempt is followed by one backoff delay, each delay lies between 4 s
\* and 10 s, the delays never decrease, and within the 3 attempts of a call
\* both delays are the floor of 4 s: the delay before the 3rd attempt
\* equals the delay before the 2nd.
C12_DelaysAtFloor ==
    \A s \in Sessions :
        LET d == call[s].delays
        IN  /\ DelaysComplete(s)
            /\ Len(d) <= 2
            /\ \A i \in 1..Len(d) : d[i] >= 4 /\ d[i] <= 10
            /\ \A i \in 1..Len(d) : \A j \in i..Len(d) : d[i] <= d[j]
            /\ \A i \in 1..Len(d) : d[i] = 4

\* C12 witness: two transient failures were each followed by a delay and
\* the 3rd attempt is being made.
C12_Witness ==
    \E s \in Sessions :
        /\ call[s].state = "Calling"
        /\ call[s].calls = 2
        /\ call[s].transient = 2
        /\ Len(call[s].delays) = 2

\* The key under which the analysis of a run's trimmed text is stored.
StudyKeyOf(r) == <<MD5Text(Trim(r.text)), Trim(r.text)>>

\* C13: a call of the model client that returns stores its value under
\* the key of the trimmed text, the empty string of a non-transient
\* failure included; a call that ends with the retries exhausted stores
\* nothing. A run whose key holds the empty string fails at the analysis
\* step without a call of the model client and without a record; so does
\* the run that follows a non-transient failure with the same trimmed
\* text, while the run that follows an exhausted call with the same text,
\* and a run whose entry has been evicted, call the model client again.
C13_Returned(s) ==
    (pc[s] = "calling" /\ pc'[s] # "calling") =>
        LET k == StudyKeyOf(run[s])
        IN  /\ call'[s].state \in {"Success", "Exhausted"}
            /\ call'[s].state = "Success" =>
                   /\ HasKey(studyCache', k)
                   /\ Stored(studyCache', k) = call'[s].out.value
                   /\ call'[s].nontransient => Stored(studyCache', k) = ""
            /\ call'[s].state = "Exhausted" =>
                   /\ studyCache' = studyCache
                   /\ ~HasKey(studyCache', k)

C13_Later(s) ==
    (TakesFile(s) /\ Reached(run'[s], "analyze")) =>
        LET k == StudyKeyOf(run'[s])
            same == idx[s] > 1 /\ Reached(run[s], "analyze")
                        /\ StudyKeyOf(run[s]) = k
        IN  /\ (HasKey(studyCache, k) /\ Stored(studyCache, k) = "") =>
                   /\ run'[s].outcome = "no_result"
                   /\ run'[s].steps = <<"validate", "extract", "analyze">>
                   /\ call'[s].calls = 0
                   /\ pc'[s] # "calling"
                   /\ history' = history
                   /\ studyCache' = studyCache
            /\ (same /\ run[s].outcome = "response_error") =>
                   /\ run'[s].outcome = "no_result"
                   /\ call'[s].calls = 0
            /\ (same /\ run[s].outcome = "exhausted") =>
                   /\ pc'[s] = "calling"
                   /\ call'[s].state = "Calling"
            /\ ~HasKey(studyCache, k) => pc'[s] = "calling"

C13_EmptyResultCached ==
    [][\A s \in Sessions : C13_Returned(s) /\ C13_Later(s)]_vars

\* C13 witness: a later file of a batch whose trimmed text has the empty
\* string stored failed at the analysis step without a model call.
C13_Witness ==
    \E s \in Sessions :
        /\ run[s].name > 1
        /\ run[s].outcome = "no_result"
        /\ run[s].steps = <<"validate", "extract", "analyze">>
        /\ call[s].calls = 0
        /\ HasKey(studyCache, StudyKeyOf(run[s]))
        /\ Stored(studyCache, StudyKeyOf(run[s])) = ""

\* Whether record r is in the list.
InList(r, records) == \E i \in 1..Len(records) : records[i] = r

\* C11 (as claimed): a save or delete that succeeds leaves in history.json
\* the complete document of the saving session's own record list, filtered
\* by retention; whatever another session appended and saved before, and
\* the saving session does not hold, is absent from the file.
C11_LastWriterWins ==
    [][\A s \in Sessions :
          (pc[s] = "saving" /\ pc'[s] # "saving" /\ faults' = faults) =>
              /\ lastSaved' = saving[s]
              /\ file'.kind = "doc"
              /\ file'.records =
                     SelectSeq(history[s],
                               LAMBDA r : Strptime(r.time) > now - Timedelta(7))
              /\ \A t \in Sessions \ {s} : \A i \in 1..Len(history[t]) :
                     ~InList(history[t][i], history[s]) =>
                         ~InList(history[t][i], file'.records)]_vars

====
